---- MODULE Spec2Model ----
(***************************************************************************)
(* Model of the chat completion wrapper: the compression strategies of     *)
(* notes.md (truncateMessages, summarizeOldMessages, manageContext,        *)
(* truncateByTokens, smartContextManagement) applied to a conversation,    *)
(* the terminal client / POST /chat handler of cli.js, and the POST /chat   *)
(* handlers of notes.md that keep the conversations on the server.         *)
(***************************************************************************)
EXTENDS Integers, Sequences, FiniteSets, TLC

VARIABLES
    conv,       \* the message list a compression strategy is called on
    last,       \* the strategy called on conv and what it returned
    cliMessages,\* cli.js: the messages array kept in memory
    cliPc,      \* cli.js: where main() stands
    turn,       \* cli.js: the list as the current turn found it, and how the turn ended
    sent,       \* the lists cli.js has posted, in order, each with what the user
                \* typed and the reply it got
    req,        \* the POST /chat request in flight
    handler,    \* the POST /chat handler awaiting client.chat.completions.create
    resp,       \* the response in flight, with the body it answers
    server,     \* notes.md: which of the two conversation-keeping handlers runs
    conversations, \* notes.md: the Map conversationId -> messages[]
    arrays,     \* notes.md: the message arrays created so far, by reference
    inflight,   \* notes.md: the handlers awaiting client.chat.completions.create
    requests,   \* notes.md: the number of requests received
    log,        \* per conversationId, the turns that have ended, in order
    overlapped  \* the conversationIds on which two turns ran at the same time

varsReduce == <<conv, last>>
varsChat == <<cliMessages, cliPc, turn, sent, req, handler, resp>>
varsStore == <<server, conversations, arrays, inflight, requests, log, overlapped>>
vars == <<conv, last, cliMessages, cliPc, turn, sent, req, handler, resp,
          server, conversations, arrays, inflight, requests, log, overlapped>>

-----------------------------------------------------------------------------
(* Bounds of the model *)

MaxLen == 3
MaxTok == 2
MaxBudget == 3
MaxRecent == 2
MaxTurns == 3

-----------------------------------------------------------------------------
(* Messages.  A message is a JavaScript object {role, content}; id stands   *)
(* for the identity of the object, tokens for enc.encode(content).length.  *)

Msg(i, r, c, t) == [id |-> i, role |-> r, content |-> c, tokens |-> t]

Ids(messages) == {messages[k].id : k \in 1..Len(messages)}

\* The identity of a newly created object: not that of any live message.
FreshId(messages) == CHOOSE i \in 1..(Len(messages) + 1) :
                        /\ i \notin Ids(messages)
                        /\ \A j \in 1..(i - 1) : j \in Ids(messages)

Min(a, b) == IF a < b THEN a ELSE b
Max(a, b) == IF a > b THEN a ELSE b

\* Array.prototype.slice(start, end) on 0-based indices, negative ones
\* counted from the end; -0 is 0.
RelIndex(n, len) == IF n < 0 THEN Max(len + n, 0) ELSE Min(n, len)

Slice(s, start, end) ==
    LET from == RelIndex(start, Len(s))
        to   == RelIndex(end, Len(s))
    IN  IF from >= to THEN <<>> ELSE SubSeq(s, from + 1, to)

\* Array.prototype.slice(start)
SliceFrom(s, start) == Slice(s, start, Len(s))

\* messages.find(m => m.role === "system"): index of the first one, 0 if none
FindSystemIndex(messages) ==
    IF \E k \in 1..Len(messages) : messages[k].role = "system"
    THEN CHOOSE k \in 1..Len(messages) :
            /\ messages[k].role = "system"
            /\ \A j \in 1..(k - 1) : messages[j].role # "system"
    ELSE 0

HasSystem(messages) == FindSystemIndex(messages) # 0

\* [systemMsg] when find returned a message, [] when it returned undefined
\* (the effect of the ternaries and of .filter(Boolean) on that element)
SystemMsgSeq(messages) ==
    IF HasSystem(messages) THEN <<messages[FindSystemIndex(messages)]>> ELSE <<>>

\* enc.encode(msg.content).length
Tokens(m) == m.tokens

RECURSIVE SumTokens(_)
SumTokens(messages) ==
    IF messages = <<>> THEN 0
    ELSE Tokens(Head(messages)) + SumTokens(Tail(messages))

\* estimateTokens(messages): total token count of the list
EstimateTokens(messages) == SumTokens(messages)

-----------------------------------------------------------------------------
(* Strategy 1: sliding window *)

TruncateMessages(messages, maxMessages) ==
    LET recentMessages == SliceFrom(messages, -maxMessages)
    IN  SystemMsgSeq(messages) \o recentMessages

(* Strategy 2: summarization.  outcome is what the completion call of      *)
(* summarizeOldMessages does: "ok" (a text), "empty" (an empty text) or    *)
(* "throw"; sumTok the token count of the message it builds.               *)

SummaryOutcomes == {"ok", "empty", "throw"}

SummarizeOldMessages(oldMessages, outcome, sumTok, newId) ==
    Msg(newId, "system", IF outcome = "empty" THEN <<0>> ELSE <<0, newId>>, sumTok)

\* The value of an async function: a list, or a rejection.
Returned(msgs, summarized, called) ==
    [status |-> "ok", msgs |-> msgs, summarized |-> summarized, called |-> called]
Rejected(summarized) ==
    [status |-> "error", msgs |-> <<>>, summarized |-> summarized, called |-> TRUE]

ManageContext(messages, maxRecent, outcome, sumTok) ==
    IF Len(messages) <= maxRecent THEN Returned(messages, <<>>, FALSE)
    ELSE LET oldMessages    == Slice(messages, 0, -maxRecent)
             recentMessages == SliceFrom(messages, -maxRecent)
             summary == SummarizeOldMessages(oldMessages, outcome, sumTok,
                                             FreshId(messages))
         IN  IF outcome = "throw" THEN Rejected(oldMessages)
             ELSE Returned(SystemMsgSeq(messages) \o <<summary>> \o recentMessages,
                           oldMessages, TRUE)

(* Strategy 3: token-based truncation *)

\* the loop with result.push(msg) in place of result.unshift(msg)
RECURSIVE TruncateLoopPush(_, _, _, _, _)
TruncateLoopPush(messages, i, totalTokens, result, maxTokens) ==
    IF i = 0 THEN result
    ELSE LET msg == messages[i]
         IN  IF msg.role = "system"
             THEN TruncateLoopPush(messages, i - 1, totalTokens, result, maxTokens)
             ELSE IF totalTokens + Tokens(msg) > maxTokens THEN result
             ELSE TruncateLoopPush(messages, i - 1, totalTokens + Tokens(msg),
                                   result \o <<msg>>, maxTokens)

\* for (let i = messages.length - 1; i >= 0; i--) { ... }
RECURSIVE TruncateLoop(_, _, _, _, _)
TruncateLoop(messages, i, totalTokens, result, maxTokens) ==
    IF i = 0 THEN result
    ELSE LET msg == messages[i]
         IN  IF msg.role = "system"
             THEN TruncateLoop(messages, i - 1, totalTokens, result, maxTokens)
             ELSE IF totalTokens + Tokens(msg) > maxTokens THEN result
             ELSE TruncateLoop(messages, i - 1, totalTokens + Tokens(msg),
                               <<msg>> \o result, maxTokens)

TruncateByTokens(messages, maxTokens) ==
    LET systemMsg == SystemMsgSeq(messages)
    IN  TruncateLoop(messages, Len(messages), SumTokens(systemMsg), systemMsg,
                     maxTokens)

(* Strategy 4: hybrid *)

SmartContextManagement(messages, maxRecent, maxTokens, outcome, sumTok) ==
    IF EstimateTokens(messages) < maxTokens THEN Returned(messages, <<>>, FALSE)
    ELSE LET systemMsg      == SystemMsgSeq(messages)
             recentMessages == SliceFrom(messages, -maxRecent)
             oldMessages    == Slice(messages,
                                     IF HasSystem(messages) THEN 1 ELSE 0,
                                     -maxRecent)
             summary == SummarizeOldMessages(oldMessages, outcome, sumTok,
                                             FreshId(messages))
         IN  IF Len(oldMessages) > 0
             THEN IF outcome = "throw" THEN Rejected(oldMessages)
                  ELSE Returned(systemMsg \o <<summary>> \o recentMessages,
                                oldMessages, TRUE)
             ELSE Returned(systemMsg \o recentMessages, <<>>, FALSE)

-----------------------------------------------------------------------------
(* cli.js: JavaScript values, strings and the request body.  A string is   *)
(* the sequence of its pieces; a piece is a character or a longer text     *)
(* that holds no white space at its ends and no upper-case letter.         *)

Undefined   == [type |-> "undefined", chars |-> <<>>, items |-> <<>>]
Null        == [type |-> "null", chars |-> <<>>, items |-> <<>>]
JsString(c) == [type |-> "string", chars |-> c, items |-> <<>>]
JsObject    == [type |-> "object", chars |-> <<>>, items |-> <<>>]
JsArray(a)  == [type |-> "array", chars |-> <<>>, items |-> a]

\* Array.isArray
IsArray(v) == v.type = "array"

\* the values that || replaces by its right operand
Falsy(v) == v.type \in {"undefined", "null"} \/ (v.type = "string" /\ v.chars = <<>>)

WhiteSpace == {" "}

RECURSIVE TrimStart(_)
TrimStart(str) ==
    IF str # <<>> /\ Head(str) \in WhiteSpace THEN TrimStart(Tail(str)) ELSE str

RECURSIVE TrimEnd(_)
TrimEnd(str) ==
    IF str # <<>> /\ str[Len(str)] \in WhiteSpace
    THEN TrimEnd(SubSeq(str, 1, Len(str) - 1)) ELSE str

\* String.prototype.trim
Trim(str) == TrimEnd(TrimStart(str))

LowerOf(c) ==
    CASE c = "E" -> "e" [] c = "X" -> "x" [] c = "I" -> "i" [] c = "T" -> "t"
      [] OTHER -> c

\* String.prototype.toLowerCase
ToLowerCase(str) == [k \in 1..Len(str) |-> LowerOf(str[k])]

Exit == <<"e", "x", "i", "t">>

\* What the user may type at the prompt
Inputs == { <<>>, <<" ">>, <<"h", "i">>, <<" ", "h", "i">>, Exit,
            <<"E", "x", "i", "t">>, <<"e", "x", "i", "t", " ">> }

Message(r, c) == [role |-> r, content |-> c]

SystemMessage ==
    Message("system", <<"You are a helpful assistant chatting in the terminal.">>)

NoReply == <<"(no reply)">>

\* const body = { messages, temperature: 0.7, max_tokens: 256 }, as
\* express.json() hands it to the handler
RequestBody(msgs) == [parsed |-> TRUE, messages |-> JsArray(msgs)]

\* the reply is shown and not pushed
PushReplyNever(msgs, reply) == msgs

\* messages.push({ role: "assistant", content: reply }), reply being
\* data.reply || "(no reply)"
PushReply(msgs, reply) ==
    Append(msgs, Message("assistant", IF Falsy(reply) THEN NoReply ELSE reply.chars))

\* const { messages, ... } = req.body || {}
BodyMessages(body) == IF body.parsed THEN body.messages ELSE Undefined

\* the check without its messages.length === 0 part
RejectsNonArrayOnly(body) == ~IsArray(BodyMessages(body))

\* if (!Array.isArray(messages) || messages.length === 0)
Rejects(body) ==
    \/ ~IsArray(BodyMessages(body))
    \/ Len(BodyMessages(body).items) = 0

\* The bodies a client other than cli.js posts
CurlBodies ==
    { [parsed |-> FALSE, messages |-> Undefined],
      [parsed |-> TRUE, messages |-> Undefined],
      [parsed |-> TRUE, messages |-> JsString(<<"h", "i">>)],
      [parsed |-> TRUE, messages |-> JsObject],
      [parsed |-> TRUE, messages |-> JsArray(<<>>)],
      [parsed |-> TRUE, messages |-> JsArray(<<Message("user", <<"h", "i">>)>>)],
      [parsed |-> TRUE, messages |-> JsArray(<<Message("user", <<>>)>>)],
      [parsed |-> TRUE, messages |-> JsArray(<<Message("bot", <<"h", "i">>)>>)] }

\* choice.message?.content of a completion
ProviderContents == { JsString(<<"hello">>), JsString(<<>>), Null }

None == [kind |-> "none"]

NoTurn == [before |-> <<>>, outcome |-> "none"]

ChatIdle ==
    /\ cliMessages = <<SystemMessage>>
    /\ cliPc = "prompt"
    /\ turn = NoTurn
    /\ sent = <<>>
    /\ req = None
    /\ handler = None
    /\ resp = None

\* the conversationIds of the requests
ConversationIds == {"a", "b"}

\* const conversations = new Map(); no request received yet
NewMap == [id \in ConversationIds |-> 0]

StoreIdle ==
    /\ server = "pattern1"
    /\ conversations = NewMap
    /\ arrays = <<>>
    /\ inflight = {}
    /\ requests = 0
    /\ log = [id \in ConversationIds |-> <<>>]
    /\ overlapped = {}

-----------------------------------------------------------------------------
(* The state: a conversation and the outcome of the reduction called on it *)

\* The strategy named policy called on messages; maxRecent, maxTokens,
\* outcome and sumTok are read by the strategies that have them.
Reduce(policy, messages, maxRecent, maxTokens, outcome, sumTok) ==
    CASE policy = "truncateMessages" ->
            Returned(TruncateMessages(messages, maxRecent), <<>>, FALSE)
      [] policy = "manageContext" ->
            ManageContext(messages, maxRecent, outcome, sumTok)
      [] policy = "truncateByTokens" ->
            Returned(TruncateByTokens(messages, maxTokens), <<>>, FALSE)
      [] policy = "smartContextManagement" ->
            SmartContextManagement(messages, maxRecent, maxTokens, outcome, sumTok)

NoReduction ==
    [policy |-> "none", status |-> "none", msgs |-> <<>>, summarized |-> <<>>,
     called |-> FALSE, outcome |-> "none", maxRecent |-> 0, maxTokens |-> 0]

Reduction(policy, r, outcome, maxRecent, maxTokens) ==
    [policy |-> policy, status |-> r.status, msgs |-> r.msgs,
     summarized |-> r.summarized, called |-> r.called,
     outcome |-> IF r.called THEN outcome ELSE "none",
     maxRecent |-> maxRecent, maxTokens |-> maxTokens]

InitReduce ==
    /\ conv \in {<<>>} \cup {<<Msg(1, "system", <<1>>, t)>> : t \in 1..MaxTok}
    /\ last = NoReduction
    /\ ChatIdle
    /\ StoreIdle

\* A chat alternates: a user message, then the assistant's reply.
NextRole(messages) ==
    IF messages # <<>> /\ messages[Len(messages)].role = "user"
    THEN "assistant" ELSE "user"

\* messages.push({ role, content })
AppendMessage ==
    /\ last.status = "none"
    /\ Len(conv) < MaxLen
    /\ \E t \in 1..MaxTok :
          conv' = Append(conv, Msg(FreshId(conv), NextRole(conv),
                                   <<FreshId(conv)>>, t))
    /\ UNCHANGED <<last, varsChat, varsStore>>

CallTruncateMessages ==
    /\ last.status = "none"
    /\ \E n \in 0..MaxRecent :
          last' = Reduction("truncateMessages",
                            Reduce("truncateMessages", conv, n, 0, "none", 0),
                            "none", n, 0)
    /\ UNCHANGED <<conv, varsChat, varsStore>>

CallManageContext ==
    /\ last.status = "none"
    /\ \E n \in 0..MaxRecent, o \in SummaryOutcomes, st \in 1..MaxTok :
          last' = Reduction("manageContext",
                            Reduce("manageContext", conv, n, 0, o, st), o, n, 0)
    /\ UNCHANGED <<conv, varsChat, varsStore>>

CallTruncateByTokens ==
    /\ last.status = "none"
    /\ \E b \in 1..MaxBudget :
          last' = Reduction("truncateByTokens",
                            Reduce("truncateByTokens", conv, 0, b, "none", 0),
                            "none", 0, b)
    /\ UNCHANGED <<conv, varsChat, varsStore>>

CallSmartContextManagement ==
    /\ last.status = "none"
    /\ \E n \in 0..MaxRecent, b \in 1..MaxBudget, o \in SummaryOutcomes,
          st \in 1..MaxTok :
          last' = Reduction("smartContextManagement",
                            Reduce("smartContextManagement", conv, n, b, o, st),
                            o, n, b)
    /\ UNCHANGED <<conv, varsChat, varsStore>>

\* Object identities are labels: the list that replaces the conversation is
\* relabelled in order of first occurrence (a message that occurs twice
\* keeps one label), the content that carries the label with it.
FirstPos(msgs, i) ==
    CHOOSE k \in 1..Len(msgs) :
        msgs[k].id = i /\ \A j \in 1..(k - 1) : msgs[j].id # i

Rank(msgs, i) == Cardinality({msgs[j].id : j \in 1..FirstPos(msgs, i)})

Relabel(msgs) ==
    [k \in 1..Len(msgs) |->
        LET m == msgs[k]
            n == Rank(msgs, m.id)
        IN  Msg(n, m.role,
                IF m.content = <<0>> THEN <<0>>
                ELSE IF Len(m.content) = 2 THEN <<0, n>> ELSE <<n>>,
                m.tokens)]

\* messages = await <strategy>(messages, ...): the result replaces the list
AssignResult ==
    /\ last.status = "ok"
    /\ Len(last.msgs) <= MaxLen
    /\ conv' = Relabel(last.msgs)
    /\ last' = NoReduction
    /\ UNCHANGED <<varsChat, varsStore>>

\* the result (or the rejection) is dropped and the list stays as it was
DropResult ==
    /\ last.status # "none"
    /\ last' = NoReduction
    /\ UNCHANGED <<conv, varsChat, varsStore>>

NextReduce ==
    \/ AppendMessage
    \/ CallTruncateMessages
    \/ CallManageContext
    \/ CallTruncateByTokens
    \/ CallSmartContextManagement
    \/ AssignResult
    \/ DropResult

SpecReduce == InitReduce /\ [][NextReduce]_vars

-----------------------------------------------------------------------------
(* cli.js: the terminal client, the POST /chat handler and the provider    *)

InitChat ==
    /\ conv = <<>>
    /\ last = NoReduction
    /\ ChatIdle
    /\ StoreIdle

Quiet == req = None /\ handler = None /\ resp = None

\* if (!userInput.trim()) continue;
CliBlankInput ==
    /\ cliPc = "prompt"
    /\ \E userInput \in Inputs : Trim(userInput) = <<>>
    /\ UNCHANGED vars

\* if (userInput.toLowerCase() === "exit") break;
CliExit ==
    /\ cliPc = "prompt"
    /\ \E userInput \in Inputs :
          Trim(userInput) # <<>> /\ ToLowerCase(userInput) = Exit
    /\ cliPc' = "closed"
    /\ UNCHANGED <<varsReduce, varsStore, cliMessages, turn, sent, req, handler, resp>>

\* callChatEndpoint up to the await of fetch
CliCallChatEndpoint ==
    /\ cliPc = "prompt"
    /\ Quiet
    /\ Len(sent) < MaxTurns
    /\ \E userInput \in Inputs :
          /\ Trim(userInput) # <<>>
          /\ ToLowerCase(userInput) # Exit
          /\ cliMessages' = Append(cliMessages, Message("user", userInput))
          /\ turn' = [before |-> cliMessages, outcome |-> "pending"]
          /\ req' = [kind |-> "request", from |-> "cli",
                     body |-> RequestBody(cliMessages')]
          /\ sent' = Append(sent, [messages |-> cliMessages', input |-> userInput,
                                   reply |-> <<>>])
    /\ cliPc' = "awaiting"
    /\ UNCHANGED <<varsReduce, varsStore, handler, resp>>

\* fetch rejects (the server cannot be reached): callChatEndpoint throws and
\* main reports the error
CliFetchRejects ==
    /\ cliPc = "awaiting"
    /\ req # None /\ req.from = "cli"
    /\ req' = None
    /\ turn' = [turn EXCEPT !.outcome = "failed"]
    /\ cliPc' = "prompt"
    /\ UNCHANGED <<varsReduce, varsStore, cliMessages, sent, handler, resp>>

\* callChatEndpoint after the await of fetch
CliReceive ==
    /\ cliPc = "awaiting"
    /\ resp # None /\ resp.to = "cli"
    /\ resp' = None
    /\ cliPc' = "prompt"
    /\ IF resp.status # 200
       THEN /\ turn' = [turn EXCEPT !.outcome = "failed"]
            /\ UNCHANGED <<cliMessages, sent>>
       ELSE /\ cliMessages' = PushReply(cliMessages, resp.reply)
            /\ sent' = [sent EXCEPT ![Len(sent)].reply = <<resp.reply>>]
            /\ turn' = [turn EXCEPT !.outcome = "ok"]
    /\ UNCHANGED <<varsReduce, varsStore, req, handler>>

\* another client posts a body (the curl command at the end of the server)
CurlPost ==
    /\ Quiet
    /\ cliPc # "awaiting"
    /\ \E body \in CurlBodies :
          req' = [kind |-> "request", from |-> "curl", body |-> body]
    /\ UNCHANGED <<varsReduce, varsStore, cliMessages, cliPc, turn, sent, handler, resp>>

CurlReceive ==
    /\ resp # None /\ resp.to = "curl"
    /\ resp' = None
    /\ UNCHANGED <<varsReduce, varsStore, cliMessages, cliPc, turn, sent, req, handler>>

\* app.post("/chat") up to the await of client.chat.completions.create
PostChat ==
    /\ req # None
    /\ handler = None
    /\ req' = None
    /\ IF Rejects(req.body)
       THEN /\ resp' = [kind |-> "response", to |-> req.from, status |-> 400,
                        reply |-> Undefined, body |-> req.body]
            /\ UNCHANGED handler
       ELSE /\ handler' = [kind |-> "call", from |-> req.from, body |-> req.body,
                           messages |-> BodyMessages(req.body)]
            /\ UNCHANGED resp
    /\ UNCHANGED <<varsReduce, varsStore, cliMessages, cliPc, turn, sent>>

\* the completion arrives: res.json({ reply: choice.message?.content, ... })
PostChatReplies ==
    /\ handler # None
    /\ \E content \in ProviderContents :
          resp' = [kind |-> "response", to |-> handler.from, status |-> 200,
                   reply |-> content, body |-> handler.body]
    /\ handler' = None
    /\ UNCHANGED <<varsReduce, varsStore, cliMessages, cliPc, turn, sent, req>>

\* the completion call throws (or completion.choices is empty): the catch
\* block answers 500
PostChatCatches ==
    /\ handler # None
    /\ resp' = [kind |-> "response", to |-> handler.from, status |-> 500,
                reply |-> Undefined, body |-> handler.body]
    /\ handler' = None
    /\ UNCHANGED <<varsReduce, varsStore, cliMessages, cliPc, turn, sent, req>>

NextChat ==
    \/ CliBlankInput
    \/ CliExit
    \/ CliCallChatEndpoint
    \/ CliFetchRejects
    \/ CliReceive
    \/ CurlPost
    \/ CurlReceive
    \/ PostChat
    \/ PostChatReplies
    \/ PostChatCatches

SpecChat == InitChat /\ [][NextChat]_vars

-----------------------------------------------------------------------------
(* notes.md: the POST /chat handlers that keep the conversations on the    *)
(* server, Pattern 1 and the Production Example.  An array is a mutable    *)
(* object: arrays[ref] is the content of the array with reference ref, and *)
(* the Map and the handlers hold references.                               *)

MaxStoreTurns == 3

\* messages = await smartContextManagement(messages, 10, 8000);
ProductionMaxRecent == 10
ProductionMaxTokens == 8000

Servers == {"pattern1", "production"}

\* req.body.message: a short message, and one as long as the token limit
StoreInputs == {[content |-> <<2>>, tokens |-> 1],
                [content |-> <<3>>, tokens |-> ProductionMaxTokens]}

\* what the await of client.chat.completions.create does
CompletionOutcomes == {"reply", "throw"}

\* || [] in Pattern 1, || [{ role: "system", ... }] in the Production
\* Example: an array created by request n
DefaultMessages(srv, n) ==
    IF srv = "production" THEN <<Msg(3 * n - 2, "system", <<1>>, 1)>> ELSE <<>>

\* { role: "user", content: message }, created by request n
UserMessage(n, input) == Msg(3 * n - 1, "user", input.content, input.tokens)

\* completion.choices[0].message of request n
AssistantMessage(n) == Msg(3 * n, "assistant", <<4>>, 1)

\* one array, created once, given to every conversation the Map does not hold
GetOrCreateShared(convs, arrs, id, fresh) ==
    IF convs[id] # 0 THEN [ref |-> convs[id], arrays |-> arrs]
    ELSE IF arrs = <<>> THEN [ref |-> 1, arrays |-> <<fresh>>]
    ELSE [ref |-> 1, arrays |-> arrs]

\* conversations.get(conversationId) || [...]: the array the Map holds, or
\* a new array
GetOrCreate(convs, arrs, id, fresh) ==
    IF convs[id] # 0 THEN [ref |-> convs[id], arrays |-> arrs]
    ELSE [ref |-> Len(arrs) + 1, arrays |-> Append(arrs, fresh)]

\* messages = await smartContextManagement(messages, 10, 8000): the array
\* passed when the function returns it as it is, a new array otherwise, a
\* rejection when the summary call throws.  Pattern 1 has no such line.
Compressed(srv, arrs, ref, outcome, sumTok) ==
    LET r == SmartContextManagement(arrs[ref], ProductionMaxRecent,
                                    ProductionMaxTokens, outcome, sumTok)
    IN  IF srv # "production" THEN [status |-> "ok", ref |-> ref, arrays |-> arrs]
        ELSE IF r.status = "error"
        THEN [status |-> "error", ref |-> ref, arrays |-> arrs]
        ELSE IF EstimateTokens(arrs[ref]) < ProductionMaxTokens
        THEN [status |-> "ok", ref |-> ref, arrays |-> arrs]
        ELSE [status |-> "ok", ref |-> Len(arrs) + 1,
              arrays |-> Append(arrs, r.msgs)]

\* a turn that has ended: its request, what the user sent and how it ended
Ended(n, input, outcome) == [n |-> n, input |-> input, outcome |-> outcome]

InitStore ==
    /\ conv = <<>>
    /\ last = NoReduction
    /\ ChatIdle
    /\ server \in Servers
    /\ conversations = NewMap
    /\ arrays = <<>>
    /\ inflight = {}
    /\ requests = 0
    /\ log = [id \in ConversationIds |-> <<>>]
    /\ overlapped = {}

\* app.post("/chat", ...) up to the await of client.chat.completions.create
StorePost ==
    /\ requests < MaxStoreTurns
    /\ \E id \in ConversationIds, input \in StoreInputs,
          outcome \in SummaryOutcomes, sumTok \in 1..MaxTok :
          LET n      == requests + 1
              got    == GetOrCreate(conversations, arrays, id,
                                    DefaultMessages(server, n))
              pushed == [got.arrays EXCEPT
                            ![got.ref] = Append(@, UserMessage(n, input))]
              c      == Compressed(server, pushed, got.ref, outcome, sumTok)
          IN  /\ requests' = n
              /\ arrays' = c.arrays
              /\ IF c.status = "error"
                 THEN /\ inflight' = inflight
                      /\ log' = [log EXCEPT
                                    ![id] = Append(@, Ended(n, input, "throw"))]
                 ELSE /\ inflight' = inflight \cup
                              {[n |-> n, conversationId |-> id,
                                messages |-> c.ref, input |-> input]}
                      /\ log' = log
              /\ overlapped' =
                    IF \E h \in inflight : h.conversationId = id
                    THEN overlapped \cup {id} ELSE overlapped
    /\ UNCHANGED <<varsReduce, varsChat, server, conversations>>

\* the completion arrives: messages.push(assistantMessage);
\* conversations.set(conversationId, messages); res.json(...)
StoreReplies ==
    /\ \E h \in inflight :
          /\ arrays' = [arrays EXCEPT
                           ![h.messages] = Append(@, AssistantMessage(h.n))]
          /\ conversations' = [conversations EXCEPT
                                  ![h.conversationId] = h.messages]
          /\ inflight' = inflight \ {h}
          /\ log' = [log EXCEPT ![h.conversationId] =
                                    Append(@, Ended(h.n, h.input, "reply"))]
    /\ UNCHANGED <<varsReduce, varsChat, server, requests, overlapped>>

\* client.chat.completions.create rejects: the handler ends there
StoreThrows ==
    /\ \E h \in inflight :
          /\ inflight' = inflight \ {h}
          /\ log' = [log EXCEPT ![h.conversationId] =
                                    Append(@, Ended(h.n, h.input, "throw"))]
    /\ UNCHANGED <<varsReduce, varsChat, server, conversations, arrays,
                   requests, overlapped>>

NextStore ==
    \/ StorePost
    \/ StoreReplies
    \/ StoreThrows

SpecStore == InitStore /\ [][NextStore]_vars

\* The parts side by side
Init == InitReduce

Next == NextReduce \/ NextChat \/ NextStore

Spec == Init /\ [][Next]_vars

-----------------------------------------------------------------------------
(* Claims about the reductions *)

Newest(messages) == messages[Len(messages)]

Pinned(messages) == messages[FindSystemIndex(messages)]

TokenPolicies == {"truncateByTokens", "smartContextManagement"}

\* Position of the first occurrence in messages of the message labelled i
Pos(messages, i) == FirstPos(messages, i)

\* The labels of the messages of the input that are not the pinned one
NonPinnedIds(messages) ==
    IF HasSystem(messages) THEN Ids(messages) \ {Pinned(messages).id}
    ELSE Ids(messages)

\* C2: the result of a reduction under a token budget sums to at most
\* maxTokens, or is exactly the one-element list of the newest message.
C2_WithinBudgetOrNewest ==
    (last.status = "ok" /\ last.policy \in TokenPolicies)
        => \/ SumTokens(last.msgs) <= last.maxTokens
           \/ (conv # <<>> /\ last.msgs = <<Newest(conv)>>)

\* C3: the reduction of a non-empty conversation is non-empty and holds
\* the newest message of the conversation.
C3_KeepsNewest ==
    (last.status = "ok" /\ conv # <<>>)
        => /\ last.msgs # <<>>
           /\ Newest(conv).id \in Ids(last.msgs)

\* C4: the system message of the conversation is the first element of
\* every reduced result, unchanged, and is not part of what the
\* summarizer is given.
C4_PinnedFirst ==
    (last.status = "ok" /\ HasSystem(conv))
        => /\ last.msgs # <<>>
           /\ last.msgs[1] = Pinned(conv)
           /\ Pinned(conv).id \notin Ids(last.summarized)

\* C5: reducing the result of a reduction again, with the same budget,
\* returns that result.
C5_Idempotent ==
    (last.status = "ok" /\ last.policy \in TokenPolicies)
        => \A o \in {"ok", "empty"}, st \in 1..MaxTok :
              LET again == Reduce(last.policy, last.msgs, last.maxRecent,
                                  last.maxTokens, o, st)
              IN  again.status = "ok" /\ again.msgs = last.msgs

\* C6: two kept messages other than the pinned one stand in the result in
\* the order they have in the input.
C6_OrderPreserved ==
    last.status = "ok"
        => \A i, j \in 1..Len(last.msgs) :
              (/\ i < j
               /\ last.msgs[i].id \in NonPinnedIds(conv)
               /\ last.msgs[j].id \in NonPinnedIds(conv))
                  => Pos(conv, last.msgs[i].id) < Pos(conv, last.msgs[j].id)

\* C6 witness: a reduction dropped a message and kept two others, neither
\* of them the pinned one.
C6_Witness ==
    /\ last.status = "ok"
    /\ Len(last.msgs) < Len(conv)
    /\ \E i, j \in 1..Len(last.msgs) :
          /\ i < j
          /\ last.msgs[i].id \in NonPinnedIds(conv)
          /\ last.msgs[j].id \in NonPinnedIds(conv)

\* C7: when the summarizer fails on a non-empty old segment the reduction
\* still returns a list, made of messages of the input only.
C7_SummaryFailureFallsBack ==
    (/\ last.called
     /\ last.outcome \in {"throw", "empty"}
     /\ last.summarized # <<>>)
        => /\ last.status = "ok"
           /\ Ids(last.msgs) \subseteq Ids(conv)

\* C8: a conversation whose token total is at most maxTokens is returned
\* as it is.
C8_InBudgetUnchanged ==
    (/\ last.policy \in TokenPolicies
     /\ last.outcome # "throw"
     /\ SumTokens(conv) <= last.maxTokens)
        => last.status = "ok" /\ last.msgs = conv

-----------------------------------------------------------------------------
(* Claims about the terminal client and the POST /chat handler *)

\* C1: after a turn whose completion call failed, the message list of the
\* client is the list the turn started with.
C1_FailedTurnLeavesListUnchanged ==
    (cliPc = "prompt" /\ turn.outcome = "failed") => cliMessages = turn.before

\* the body carries a messages field that is a non-empty array
HasMessagesArray(body) ==
    /\ body.parsed
    /\ body.messages.type = "array"
    /\ body.messages.items # <<>>

\* C9: the completion provider is called only for a body whose messages
\* field is a non-empty array, and any other body is answered with 400.
C9_InvalidBodyRejected ==
    /\ handler # None => HasMessagesArray(handler.body)
    /\ (resp # None /\ ~HasMessagesArray(resp.body)) => resp.status = 400

\* C9 witness: a body with an empty messages array has been answered 400.
C9_Witness ==
    /\ resp # None
    /\ resp.body.parsed
    /\ resp.body.messages = JsArray(<<>>)
    /\ resp.status = 400

\* C10: every list the client posts starts with the system message and
\* ends with the user message of its turn; the list of an earlier request
\* is a proper prefix of it, followed by the reply that request received.
C10_FullHistorySent ==
    \A k \in 1..Len(sent) :
        LET b == sent[k].messages
        IN  /\ b[1] = SystemMessage
            /\ b[Len(b)] = Message("user", sent[k].input)
            /\ \A j \in 1..(k - 1) :
                  LET a == sent[j].messages
                  IN  /\ Len(a) < Len(b)
                      /\ SubSeq(b, 1, Len(a)) = a
                      /\ (sent[j].reply # <<>> /\ ~Falsy(sent[j].reply[1]))
                            => b[Len(a) + 1] =
                                  Message("assistant", sent[j].reply[1].chars)

\* C10 witness: a third request was posted after a turn that got a reply
\* and a turn that failed.
C10_Witness ==
    /\ Len(sent) = 3
    /\ sent[1].reply # <<>> /\ ~Falsy(sent[1].reply[1])
    /\ sent[2].reply = <<>>
    /\ cliPc = "awaiting"

\* messages: [{ role: "user" | "assistant" | "system", content: string }]
Roles == {"system", "user", "assistant"}

\* a message with a recognized role and, for user and assistant, a content
\* that is not empty
ValidMessage(m) ==
    /\ m.role \in Roles
    /\ m.role \in {"user", "assistant"} => m.content # <<>>

\* C11: a message whose role is not system, user or assistant, or a user
\* or assistant message with empty content, is never kept in the client's
\* list and never passed to the completion provider.
C11_InvalidMessageNeverForwarded ==
    /\ \A k \in 1..Len(cliMessages) : ValidMessage(cliMessages[k])
    /\ handler # None =>
          \A k \in 1..Len(handler.messages.items) :
              ValidMessage(handler.messages.items[k])

-----------------------------------------------------------------------------
(* Claims about token-based truncation and about duplicates *)

\* the messages of list that are not the pinned message of messages
WithoutPinned(messages, list) ==
    SelectSeq(list, LAMBDA m : ~HasSystem(messages) \/ m.id # Pinned(messages).id)

\* the last k elements of s
Suffix(s, k) == SubSeq(s, Len(s) - k + 1, Len(s))

\* the length of the longest suffix of s whose tokens, added to base, are
\* at most maxTokens (0 when not even the empty suffix fits)
LongestFittingSuffix(s, base, maxTokens) ==
    LET fits == {k \in 0..Len(s) : base + SumTokens(Suffix(s, k)) <= maxTokens}
    IN  IF fits = {} THEN 0
        ELSE CHOOSE k \in fits : \A j \in fits : j <= k

\* C13: token-based truncation keeps the pinned system message and, of the
\* other messages, exactly the longest suffix whose tokens added to the
\* pinned message's are at most maxTokens (a total equal to maxTokens fits).
C13_LongestSuffixKept ==
    (last.status = "ok" /\ last.policy = "truncateByTokens")
        => LET others == WithoutPinned(conv, conv)
               base   == SumTokens(SystemMsgSeq(conv))
               k      == LongestFittingSuffix(others, base, last.maxTokens)
           IN  /\ HasSystem(conv) => Pinned(conv).id \in Ids(last.msgs)
               /\ WithoutPinned(conv, last.msgs) = Suffix(others, k)

\* no two elements of the list are the same message
NoDuplicate(list) ==
    \A i, j \in 1..Len(list) : i < j => list[i].id # list[j].id

\* C14: a reduction of a conversation returns no message twice.
C14_NoDuplicates ==
    (last.status = "ok" /\ NoDuplicate(conv)) => NoDuplicate(last.msgs)

-----------------------------------------------------------------------------
(* Claims about the conversations kept on the server *)

\* what the Map holds for a conversationId
NotStored == [present |-> FALSE, messages |-> <<>>]
Stored(id) ==
    IF conversations[id] = 0 THEN NotStored
    ELSE [present |-> TRUE, messages |-> arrays[conversations[id]]]

\* what the Map holds for a conversation after one more turn of it, run
\* with no other request on the server
AloneTurn(srv, stored, ev) ==
    LET start  == IF stored.present THEN stored.messages
                  ELSE DefaultMessages(srv, ev.n)
        pushed == Append(start, UserMessage(ev.n, ev.input))
        sent1  == IF srv = "production"
                  THEN SmartContextManagement(pushed, ProductionMaxRecent,
                                              ProductionMaxTokens, "ok", 1).msgs
                  ELSE pushed
    IN  IF ev.outcome = "throw"
        THEN IF stored.present THEN [present |-> TRUE, messages |-> pushed]
             ELSE NotStored
        ELSE [present |-> TRUE,
              messages |-> Append(sent1, AssistantMessage(ev.n))]

\* what the Map holds for a conversation whose turns ran alone, in order
RECURSIVE Alone(_, _)
Alone(srv, events) ==
    IF events = <<>> THEN NotStored
    ELSE AloneTurn(srv, Alone(srv, SubSeq(events, 1, Len(events) - 1)),
                   events[Len(events)])

Busy(id) == \E h \in inflight : h.conversationId = id

\* the conversationId of the request that created message m
OwnerOf(m) ==
    LET n == (m.id + 2) \div 3
    IN  CHOOSE id \in ConversationIds :
            \/ \E h \in inflight : h.n = n /\ h.conversationId = id
            \/ \E k \in 1..Len(log[id]) : log[id][k].n = n

\* C12: turns on different conversationIds share nothing.  However the
\* turns of the conversations interleave, a conversation whose own turns
\* ran one after the other holds, once no turn of it is in flight, exactly
\* the messages it holds when its turns run alone; no two conversationIds
\* hold the same array, and every message a conversation holds was created
\* by a request of that conversation.
C12_ConversationsIsolated ==
    \A id \in ConversationIds :
        /\ (~Busy(id) /\ id \notin overlapped)
              => Stored(id) = Alone(server, log[id])
        /\ \A other \in ConversationIds \ {id} :
              conversations[id] # 0 => conversations[id] # conversations[other]
        /\ \A k \in 1..Len(Stored(id).messages) :
              OwnerOf(Stored(id).messages[k]) = id

\* conversation b was stored by a turn that began and ended while a turn of
\* conversation a was in flight, and the Map holds a conversation for a too
C12_Witness ==
    /\ overlapped = {}
    /\ conversations["a"] # 0
    /\ conversations["b"] # 0
    /\ \E h \in inflight, k \in 1..Len(log["b"]) :
          /\ h.conversationId = "a"
          /\ log["b"][k].outcome = "reply"
          /\ h.n < log["b"][k].n

====
